---- MODULE Spec2Model ----
(***************************************************************************)
(* Fixed-size-record access to a flat file through positional I/O          *)
(* (ReaderAtReader, WriterAtWriter) and through a memory mapping           *)
(* (MmapReader, MmapWriter), as implemented in mmap_reader.go.             *)
(*                                                                         *)
(* The record geometry is the program's own (100-byte records, 1,000,000   *)
(* of them); files are kept sparsely (original content plus the bytes      *)
(* written since), and the operations are driven with indices, buffers,    *)
(* payloads and file lengths sampled around every boundary the code tests. *)
(*                                                                         *)
(* Operating-system model: positional reads and writes and every mapping   *)
(* of a file go through one page cache, so a store through a MAP_SHARED    *)
(* mapping is what a later pread of the same bytes returns, and a          *)
(* PROT_READ mapping shows the file's current bytes.  A store through a    *)
(* MAP_PRIVATE mapping stays in the mapping.                               *)
(***************************************************************************)
EXTENDS Integers, Sequences, FiniteSets, TLC

RecordSize == 100
RecordCount == 1000000

\* pageSize := 4096 in WarmPages.
PageSize == 4096

\* Number of distinct valid payload patterns the writers are driven with.
NPatterns == 1

Min(a, b) == IF a < b THEN a ELSE b
Max(a, b) == IF a > b THEN a ELSE b

\* The size the test file is created with: RecordCount records of RecordSize.
FullSize == RecordSize * RecordCount

-----------------------------------------------------------------------------
(* Byte strings.  A byte string is kept as runs: a function from the       *)
(* position a run starts at to the run [src, id, at, n], which stands for  *)
(* the n bytes SrcByte(src, id, at), ..., SrcByte(src, id, at + n - 1).    *)
(* Runs never overlap.  A file's content and a slice's backing array       *)
(* cover every position from 0 to their length.                            *)

NoBytes == [o \in {} |-> [src |-> "zero", id |-> 0, at |-> 0, n |-> 0]]

Run(src, id, at, n) == [src |-> src, id |-> id, at |-> at, n |-> n]

OneRun(src, id, n) == IF n <= 0 THEN NoBytes ELSE (0 :> Run(src, id, 0, n))

\* The byte at position k of a source: the generated test file ("orig"), a
\* hole or fresh memory ("zero"), a caller's untouched buffer ("fill"), or
\* payload pattern id ("pat").
SrcByte(src, id, k) ==
  CASE src = "orig" -> (k * 7 + (k \div RecordSize) * 13 + 3) % 256
    [] src = "zero" -> 0
    [] src = "fill" -> 170
    [] src = "pat" -> (id * 50 + k + 1) % 256

Covers(x, o, pos) == o <= pos /\ pos < o + x[o].n

Covered(x, pos) == \E o \in DOMAIN x : Covers(x, o, pos)

\* The byte of x at pos (pos is covered).
ByteOf(x, pos) ==
  LET o == CHOOSE o \in DOMAIN x : Covers(x, o, pos)
  IN SrcByte(x[o].src, x[o].id, x[o].at + (pos - o))

\* One past the last position x covers.
BLen(x) ==
  IF DOMAIN x = {} THEN 0
  ELSE LET o == CHOOSE o \in DOMAIN x : \A q \in DOMAIN x : q <= o
       IN o + x[o].n

\* The part of x within [lo, hi), at its own positions.
Keep(x, lo, hi) ==
  [k \in {Max(o, lo) : o \in {q \in DOMAIN x : Max(q, lo) < Min(q + x[q].n, hi)}} |->
     LET o == CHOOSE o \in DOMAIN x : Covers(x, o, k)
     IN Run(x[o].src, x[o].id, x[o].at + (k - o), Min(o + x[o].n, hi) - k)]

Shift(x, d) == [k \in {o + d : o \in DOMAIN x} |-> x[k - d]]

\* Bytes [lo, hi) of x, as a byte string of its own (positions from 0).
Slice(x, lo, hi) == Shift(Keep(x, lo, hi), 0 - lo)

\* x after run r was stored at position o.
Overlay1(x, o, r) ==
  Keep(x, 0, o) @@ (o :> r) @@ Keep(x, o + r.n, Max(BLen(x), o + r.n))

\* x after the runs of y were stored at their positions.
RECURSIVE Overlay(_, _)
Overlay(x, y) ==
  IF DOMAIN y = {} THEN x
  ELSE LET o == CHOOSE o \in DOMAIN y : TRUE
       IN Overlay(Overlay1(x, o, y[o]), [k \in (DOMAIN y) \ {o} |-> y[k]])

\* Byte-for-byte equality of two byte strings of at most a few records.
SameBytes(x, y) ==
  /\ BLen(x) = BLen(y)
  /\ \A j \in 0..(BLen(x) - 1) :
       /\ Covered(x, j) /\ Covered(y, j)
       /\ ByteOf(x, j) = ByteOf(y, j)

-----------------------------------------------------------------------------
(* Go byte slices.  len is the slice's length; arr is its backing array    *)
(* from the slice's first element on, so BLen(arr) is the capacity.        *)

MkBuf(l, c) == [len |-> l, arr |-> OneRun("fill", 0, c)]

NilSlice == [len |-> 0, arr |-> NoBytes]

\* A payload of n bytes in pattern p.
Payload(p, n) == [len |-> n, arr |-> OneRun("pat", p, n)]

\* s[:len(s)], the bytes of slice s.
BytesOf(s) == Slice(s.arr, 0, s.len)

\* Slice s after bytes b were stored at its front (what pread leaves in the
\* caller's buffer).
Filled(s, b) == [s EXCEPT !.arr = Overlay(@, b)]

\* A returned slice: which storage it aliases, the byte range of that storage,
\* and the bytes seen through it.
NoSlice == [store |-> "nil", lo |-> 0, hi |-> 0, bytes |-> NoBytes]

-----------------------------------------------------------------------------
(* Files.  size is the current length, ext the content, covering           *)
(* [0, size), and base the length the file was created with.               *)

NewFile(sz) == [size |-> sz, base |-> sz, ext |-> OneRun("orig", 0, sz)]

FileBytes(f, off, n) == Slice(f.ext, off, off + n)

\* The file after bytes b were written at off: a write past the end extends
\* the file, and what lies between the old end and off reads as zero.
FileWritten(f, off, b) ==
  IF BLen(b) = 0 THEN f
  ELSE LET hole == IF off > f.size
                   THEN (f.size :> Run("zero", 0, 0, off - f.size))
                   ELSE NoBytes
       IN [f EXCEPT !.size = Max(f.size, off + BLen(b)),
                    !.ext = Overlay(f.ext @@ hole, Shift(b, off))]

\* Byte-for-byte equality of two files.  The contents are compared run by
\* run between every two neighbouring run boundaries: as the same bytes of
\* the same source, or byte by byte where the stretch is at most a record.
SameContent(f, g) ==
  /\ f.size = g.size
  /\ \A k \in (DOMAIN f.ext) \cup (DOMAIN g.ext) :
       LET bounds == (DOMAIN f.ext) \cup (DOMAIN g.ext) \cup {f.size}
           nxt == CHOOSE e \in bounds : e > k /\ \A q \in bounds : q > k => e <= q
           x == Slice(f.ext, k, nxt)
           y == Slice(g.ext, k, nxt)
       IN x = y \/ (nxt - k <= RecordSize /\ SameBytes(x, y))

-----------------------------------------------------------------------------
(* Operating-system objects and calls.  A file handle (os.File) names its  *)
(* file, its open mode and whether it is still open.  A mapping ([]byte    *)
(* returned by unix.Mmap) has a length fixed when it is made, is live      *)
(* until unmapped, and holds privately the bytes stored through it when    *)
(* it is MAP_PRIVATE.  A fault names the error the environment injects     *)
(* into a call ("none": the call does what it is asked).                   *)

NoFile == [nil |-> TRUE, name |-> "", mode |-> "", open |-> FALSE]

NoData == [nil |-> TRUE, len |-> 0, live |-> FALSE, shared |-> FALSE,
           writable |-> FALSE, priv |-> NoBytes]

NoFault == [err |-> "none", n |-> 0]

\* os.Open / os.OpenFile
OsOpen(name, mode, fault) ==
  IF fault # "none" THEN [err |-> fault, file |-> NoFile]
  ELSE [err |-> "nil",
        file |-> [nil |-> FALSE, name |-> name, mode |-> mode, open |-> TRUE]]

\* file.Stat
FileStat(h, f, fault) ==
  IF ~h.open THEN [err |-> "ErrClosed", size |-> 0]
  ELSE IF fault # "none" THEN [err |-> fault, size |-> 0]
  ELSE [err |-> "nil", size |-> f.size]

\* unix.Mmap(fd, 0, length, prot, flags)
UnixMmap(h, length, writable, shared, fault) ==
  IF length <= 0 THEN [err |-> "EINVAL", data |-> NoData]
  ELSE IF ~h.open THEN [err |-> "EBADF", data |-> NoData]
  ELSE IF shared /\ writable /\ h.mode # "rw" THEN [err |-> "EACCES", data |-> NoData]
  ELSE IF fault # "none" THEN [err |-> fault, data |-> NoData]
  ELSE [err |-> "nil",
        data |-> [nil |-> FALSE, len |-> length, live |-> TRUE, shared |-> shared,
                  writable |-> writable, priv |-> NoBytes]]

\* unix.Munmap(data): a slice that is no live mapping is refused.
UnixMunmap(data, fault) ==
  IF data.len = 0 \/ ~data.live THEN [err |-> "EINVAL", data |-> data]
  ELSE IF fault # "none" THEN [err |-> fault, data |-> data]
  ELSE [err |-> "nil", data |-> [data EXCEPT !.live = FALSE]]

\* file.Close: the descriptor is released whatever error is reported.
FileClose(h, fault) ==
  IF ~h.open THEN [err |-> "ErrClosed", file |-> h]
  ELSE [err |-> IF fault # "none" THEN fault ELSE "nil",
        file |-> [h EXCEPT !.open = FALSE]]

\* file.ReadAt(b, off) with len(b) = n: reads until n bytes, the end of the
\* file (io.EOF) or an error; fault.n bytes arrive before an injected error.
FileReadAt(h, f, n, off, fault) ==
  IF ~h.open THEN [n |-> 0, err |-> "ErrClosed", bytes |-> NoBytes]
  ELSE LET avail == Max(0, Min(n, f.size - off))
           got == IF fault.err # "none" THEN Min(fault.n, avail) ELSE avail
       IN [n |-> got,
           err |-> IF fault.err # "none" THEN fault.err
                   ELSE IF got < n THEN "EOF" ELSE "nil",
           bytes |-> FileBytes(f, off, got)]

\* file.WriteAt(b, off): writes all of b or reports an error; fault.n bytes
\* are written before an injected error.
FileWriteAt(h, f, b, off, fault) ==
  IF ~h.open THEN [n |-> 0, err |-> "ErrClosed", file |-> f]
  ELSE IF h.mode # "rw" THEN [n |-> 0, err |-> "EBADF", file |-> f]
  ELSE LET put == IF fault.err # "none" THEN Min(fault.n, BLen(b)) ELSE BLen(b)
       IN [n |-> put,
           err |-> IF fault.err # "none" THEN fault.err ELSE "nil",
           file |-> FileWritten(f, off, Slice(b, 0, put))]

\* Bytes [off, off + n) seen through mapping d of file f.
MapBytes(d, f, off, n) == Slice(Overlay(f.ext, d.priv), off, off + n)

-----------------------------------------------------------------------------
(* The accessors.  An object is nil (not constructed) or holds the fields  *)
(* file and data of the Go struct (data is NoData in the positional ones). *)

NilObj == [nil |-> TRUE, file |-> NoFile, data |-> NoData]

MkObj(file, data) == [nil |-> FALSE, file |-> file, data |-> data]

\* What a record operation returns and does: the error kind ("nil" for
\* success), the returned slice, the caller's buffer, the file and the mapping
\* after the call, and the byte ranges of the file or mapping it touched.
Outcome(err, ret, buf, f, d, access) ==
  [err |-> err, ret |-> ret, buf |-> buf, file |-> f, data |-> d, access |-> access]

Range(kind, lo, hi) == [kind |-> kind, lo |-> lo, hi |-> hi]

\* The upper bound taken as inclusive.
IndexOutOfRange_Inclusive(index) == index < 0 \/ index > RecordCount

\* if index < 0 || index >= RecordCount
IndexOutOfRange(index) == index < 0 \/ index >= RecordCount

\* The capacity tested in place of the length.
BufferTooSmall_Cap(buf) == BLen(buf.arr) < RecordSize

\* if len(buf) < RecordSize
BufferTooSmall(buf) == buf.len < RecordSize

\* Only a short payload refused.
SizeMismatch_Short(data) == data.len < RecordSize

\* if len(data) != RecordSize
SizeMismatch(data) == data.len # RecordSize

\* The offset of records padded to a multiple of eight bytes.
Offset_Padded(index) == index * (RecordSize + 4)

\* offset := index * RecordSize
Offset(index) == index * RecordSize

\* The record's start tested in place of its end.
BoundsExceeded_Start(offset, d) == offset > d.len

\* if offset+RecordSize > len(m.data)
BoundsExceeded(offset, d) == offset + RecordSize > d.len

\* ReadRecord taking end of file for success whatever the count.
ReaderAtReader_ReadRecord_EofOk(r, f, index, buf, fault) ==
  IF IndexOutOfRange(index)
  THEN Outcome("IndexOutOfRange", NoSlice, buf, f, r.data, {})
  ELSE IF BufferTooSmall(buf)
  THEN Outcome("BufferTooSmall", NoSlice, buf, f, r.data, {})
  ELSE LET offset == Offset(index)
           rd == FileReadAt(r.file, f, RecordSize, offset, fault)
           buf2 == Filled(buf, rd.bytes)
           acc == IF r.file.open THEN {Range("pread", offset, offset + RecordSize)} ELSE {}
       IN IF rd.err # "nil" /\ rd.err # "EOF"
          THEN Outcome("ReadFailure", NoSlice, buf2, f, r.data, acc)
          ELSE IF rd.n # RecordSize /\ rd.err # "EOF"
          THEN Outcome("PartialTransfer", NoSlice, buf2, f, r.data, acc)
          ELSE Outcome("nil",
                       [store |-> "buf", lo |-> 0, hi |-> RecordSize,
                        bytes |-> Slice(buf2.arr, 0, RecordSize)],
                       buf2, f, r.data, acc)

\* ReadRecord returning the whole of the caller's buffer.
ReaderAtReader_ReadRecord_WholeBuf(r, f, index, buf, fault) ==
  IF IndexOutOfRange(index)
  THEN Outcome("IndexOutOfRange", NoSlice, buf, f, r.data, {})
  ELSE IF BufferTooSmall(buf)
  THEN Outcome("BufferTooSmall", NoSlice, buf, f, r.data, {})
  ELSE LET offset == Offset(index)
           rd == FileReadAt(r.file, f, RecordSize, offset, fault)
           buf2 == Filled(buf, rd.bytes)
           acc == IF r.file.open THEN {Range("pread", offset, offset + RecordSize)} ELSE {}
       IN IF rd.err # "nil" /\ rd.err # "EOF"
          THEN Outcome("ReadFailure", NoSlice, buf2, f, r.data, acc)
          ELSE IF rd.n # RecordSize
          THEN Outcome("PartialTransfer", NoSlice, buf2, f, r.data, acc)
          ELSE Outcome("nil",
                       [store |-> "buf", lo |-> 0, hi |-> buf.len,
                        bytes |-> Slice(buf2.arr, 0, buf.len)],
                       buf2, f, r.data, acc)

\* ReadRecord with the buffer tested before the index.
ReaderAtReader_ReadRecord_BufferFirst(r, f, index, buf, fault) ==
  IF BufferTooSmall(buf)
  THEN Outcome("BufferTooSmall", NoSlice, buf, f, r.data, {})
  ELSE IF IndexOutOfRange(index)
  THEN Outcome("IndexOutOfRange", NoSlice, buf, f, r.data, {})
  ELSE LET offset == Offset(index)
           rd == FileReadAt(r.file, f, RecordSize, offset, fault)
           buf2 == Filled(buf, rd.bytes)
           acc == IF r.file.open THEN {Range("pread", offset, offset + RecordSize)} ELSE {}
       IN IF rd.err # "nil" /\ rd.err # "EOF"
          THEN Outcome("ReadFailure", NoSlice, buf2, f, r.data, acc)
          ELSE IF rd.n # RecordSize
          THEN Outcome("PartialTransfer", NoSlice, buf2, f, r.data, acc)
          ELSE Outcome("nil",
                       [store |-> "buf", lo |-> 0, hi |-> RecordSize,
                        bytes |-> Slice(buf2.arr, 0, RecordSize)],
                       buf2, f, r.data, acc)

\* func (r *ReaderAtReader) ReadRecord(index int, buf []byte) ([]byte, error)
ReaderAtReader_ReadRecord(r, f, index, buf, fault) ==
  IF IndexOutOfRange(index)
  THEN Outcome("IndexOutOfRange", NoSlice, buf, f, r.data, {})
  ELSE IF BufferTooSmall(buf)
  THEN Outcome("BufferTooSmall", NoSlice, buf, f, r.data, {})
  ELSE LET offset == Offset(index)
           rd == FileReadAt(r.file, f, RecordSize, offset, fault)
           buf2 == Filled(buf, rd.bytes)
           acc == IF r.file.open THEN {Range("pread", offset, offset + RecordSize)} ELSE {}
       IN IF rd.err # "nil" /\ rd.err # "EOF"
          THEN Outcome("ReadFailure", NoSlice, buf2, f, r.data, acc)
          ELSE IF rd.n # RecordSize
          THEN Outcome("PartialTransfer", NoSlice, buf2, f, r.data, acc)
          ELSE Outcome("nil",
                       [store |-> "buf", lo |-> 0, hi |-> RecordSize,
                        bytes |-> Slice(buf2.arr, 0, RecordSize)],
                       buf2, f, r.data, acc)

\* WriteRecord that does not look at what WriteAt returned.
WriterAtWriter_WriteRecord_Unchecked(w, f, index, data, fault) ==
  IF IndexOutOfRange(index)
  THEN Outcome("IndexOutOfRange", NoSlice, data, f, w.data, {})
  ELSE IF SizeMismatch(data)
  THEN Outcome("SizeMismatch", NoSlice, data, f, w.data, {})
  ELSE LET offset == Offset(index)
           wr == FileWriteAt(w.file, f, BytesOf(data), offset, fault)
           acc == IF w.file.open THEN {Range("pwrite", offset, offset + data.len)} ELSE {}
       IN Outcome("nil", NoSlice, data, wr.file, w.data, acc)

\* WriteRecord refusing a record that ends past the end of the file.
WriterAtWriter_WriteRecord_Bounded(w, f, index, data, fault) ==
  IF IndexOutOfRange(index)
  THEN Outcome("IndexOutOfRange", NoSlice, data, f, w.data, {})
  ELSE IF SizeMismatch(data)
  THEN Outcome("SizeMismatch", NoSlice, data, f, w.data, {})
  ELSE LET offset == Offset(index)
           wr == FileWriteAt(w.file, f, BytesOf(data), offset, fault)
           acc == IF w.file.open THEN {Range("pwrite", offset, offset + data.len)} ELSE {}
       IN IF offset + RecordSize > f.size
          THEN Outcome("BoundsExceeded", NoSlice, data, f, w.data, {})
          ELSE IF wr.err # "nil"
          THEN Outcome("WriteFailure", NoSlice, data, wr.file, w.data, acc)
          ELSE IF wr.n # RecordSize
          THEN Outcome("PartialTransfer", NoSlice, data, wr.file, w.data, acc)
          ELSE Outcome("nil", NoSlice, data, wr.file, w.data, acc)

\* func (w *WriterAtWriter) WriteRecord(index int, data []byte) error
WriterAtWriter_WriteRecord(w, f, index, data, fault) ==
  IF IndexOutOfRange(index)
  THEN Outcome("IndexOutOfRange", NoSlice, data, f, w.data, {})
  ELSE IF SizeMismatch(data)
  THEN Outcome("SizeMismatch", NoSlice, data, f, w.data, {})
  ELSE LET offset == Offset(index)
           wr == FileWriteAt(w.file, f, BytesOf(data), offset, fault)
           acc == IF w.file.open THEN {Range("pwrite", offset, offset + data.len)} ELSE {}
       IN IF wr.err # "nil"
          THEN Outcome("WriteFailure", NoSlice, data, wr.file, w.data, acc)
          ELSE IF wr.n # RecordSize
          THEN Outcome("PartialTransfer", NoSlice, data, wr.file, w.data, acc)
          ELSE Outcome("nil", NoSlice, data, wr.file, w.data, acc)

\* ReadRecord returning the view that starts one byte late.
MmapReader_ReadRecord_Shifted(m, f, index, buf) ==
  IF IndexOutOfRange(index)
  THEN Outcome("IndexOutOfRange", NoSlice, buf, f, m.data, {})
  ELSE LET offset == Offset(index)
       IN IF BoundsExceeded(offset, m.data)
          THEN Outcome("BoundsExceeded", NoSlice, buf, f, m.data, {})
          ELSE Outcome("nil",
                       [store |-> IF m.data.live THEN "map" ELSE "unmapped",
                        lo |-> offset + 1, hi |-> offset + RecordSize,
                        bytes |-> IF m.data.live
                                  THEN MapBytes(m.data, f, offset + 1, RecordSize - 1)
                                  ELSE NoBytes],
                       buf, f, m.data, {Range("view", offset + 1, offset + RecordSize)})

\* func (m *MmapReader) ReadRecord(index int, buf []byte) ([]byte, error)
\* The result is a view of the mapping: no byte is loaded by the call.
MmapReader_ReadRecord(m, f, index, buf) ==
  IF IndexOutOfRange(index)
  THEN Outcome("IndexOutOfRange", NoSlice, buf, f, m.data, {})
  ELSE LET offset == Offset(index)
       IN IF BoundsExceeded(offset, m.data)
          THEN Outcome("BoundsExceeded", NoSlice, buf, f, m.data, {})
          ELSE Outcome("nil",
                       [store |-> IF m.data.live THEN "map" ELSE "unmapped",
                        lo |-> offset, hi |-> offset + RecordSize,
                        bytes |-> IF m.data.live
                                  THEN MapBytes(m.data, f, offset, RecordSize)
                                  ELSE NoBytes],
                       buf, f, m.data, {Range("view", offset, offset + RecordSize)})

\* copy(w.data[offset:offset+RecordSize], data): a store to an unmapped or
\* read-only region is a fault that ends the program.
MapStore(d, f, offset, b) ==
  IF ~d.live \/ ~d.writable THEN [err |-> "SIGSEGV", file |-> f, data |-> d]
  ELSE IF d.shared
  THEN [err |-> "nil", data |-> d,
        file |-> [f EXCEPT !.ext = Overlay(f.ext, Shift(b, offset))]]
  ELSE [err |-> "nil", file |-> f,
        data |-> [d EXCEPT !.priv = Overlay(d.priv, Shift(b, offset))]]

\* WriteRecord copying one byte less than the record.
MmapWriter_WriteRecord_Truncated(w, f, index, data) ==
  IF IndexOutOfRange(index)
  THEN Outcome("IndexOutOfRange", NoSlice, data, f, w.data, {})
  ELSE IF SizeMismatch(data)
  THEN Outcome("SizeMismatch", NoSlice, data, f, w.data, {})
  ELSE LET offset == Offset(index)
       IN IF BoundsExceeded(offset, w.data)
          THEN Outcome("BoundsExceeded", NoSlice, data, f, w.data, {})
          ELSE LET st == MapStore(w.data, f, offset, Slice(data.arr, 0, RecordSize - 1))
               IN Outcome(st.err, NoSlice, data, st.file, st.data,
                          {Range("store", offset, offset + RecordSize - 1)})

\* func (w *MmapWriter) WriteRecord(index int, data []byte) error
MmapWriter_WriteRecord(w, f, index, data) ==
  IF IndexOutOfRange(index)
  THEN Outcome("IndexOutOfRange", NoSlice, data, f, w.data, {})
  ELSE IF SizeMismatch(data)
  THEN Outcome("SizeMismatch", NoSlice, data, f, w.data, {})
  ELSE LET offset == Offset(index)
       IN IF BoundsExceeded(offset, w.data)
          THEN Outcome("BoundsExceeded", NoSlice, data, f, w.data, {})
          ELSE LET st == MapStore(w.data, f, offset, Slice(data.arr, 0, RecordSize))
               IN Outcome(st.err, NoSlice, data, st.file, st.data,
                          {Range("store", offset, offset + RecordSize)})

-----------------------------------------------------------------------------
(* Construction and teardown.  A constructor's result carries, beside the  *)
(* error and the object, the final state of the handle it opened and of    *)
(* the mapping it made, and the system calls it issued, in order.          *)

NoFaults == [open |-> "none", stat |-> "none", mmap |-> "none",
             munmap |-> "none", close |-> "none"]

Built(err, obj, file, data, trace) ==
  [err |-> err, obj |-> obj, file |-> file, data |-> data, trace |-> trace]

\* func NewReaderAtReader(filename string) (*ReaderAtReader, error)
NewReaderAtReader(filename, f, fault) ==
  LET o == OsOpen(filename, "r", fault.open)
  IN IF o.err # "nil"
     THEN Built("OpenFailure", NilObj, NoFile, NoData, <<"open">>)
     ELSE Built("nil", MkObj(o.file, NoData), o.file, NoData, <<"open">>)

\* func NewWriterAtWriter(filename string) (*WriterAtWriter, error)
NewWriterAtWriter(filename, f, fault) ==
  LET o == OsOpen(filename, "rw", fault.open)
  IN IF o.err # "nil"
     THEN Built("OpenFailure", NilObj, NoFile, NoData, <<"open">>)
     ELSE Built("nil", MkObj(o.file, NoData), o.file, NoData, <<"open">>)

\* NewMmapReader returning the mapping error without closing the file.
NewMmapReader_Leaky(filename, f, fault) ==
  LET o == OsOpen(filename, "r", fault.open)
  IN IF o.err # "nil"
     THEN Built("OpenFailure", NilObj, NoFile, NoData, <<"open">>)
     ELSE LET st == FileStat(o.file, f, fault.stat)
          IN IF st.err # "nil"
             THEN Built("StatFailure", NilObj, FileClose(o.file, fault.close).file,
                        NoData, <<"open", "stat", "close">>)
             ELSE LET mm == UnixMmap(o.file, st.size, FALSE, FALSE, fault.mmap)
                  IN IF mm.err # "nil"
                     THEN Built("MappingFailure", NilObj, o.file, NoData,
                                <<"open", "stat", "mmap">>)
                     ELSE Built("nil", MkObj(o.file, mm.data), o.file, mm.data,
                                <<"open", "stat", "mmap">>)

\* func NewMmapReader(filename string) (*MmapReader, error)
\* unix.Mmap(fd, 0, size, PROT_READ, MAP_PRIVATE)
NewMmapReader(filename, f, fault) ==
  LET o == OsOpen(filename, "r", fault.open)
  IN IF o.err # "nil"
     THEN Built("OpenFailure", NilObj, NoFile, NoData, <<"open">>)
     ELSE LET st == FileStat(o.file, f, fault.stat)
          IN IF st.err # "nil"
             THEN Built("StatFailure", NilObj, FileClose(o.file, fault.close).file,
                        NoData, <<"open", "stat", "close">>)
             ELSE LET mm == UnixMmap(o.file, st.size, FALSE, FALSE, fault.mmap)
                  IN IF mm.err # "nil"
                     THEN Built("MappingFailure", NilObj,
                                FileClose(o.file, fault.close).file, NoData,
                                <<"open", "stat", "mmap", "close">>)
                     ELSE Built("nil", MkObj(o.file, mm.data), o.file, mm.data,
                                <<"open", "stat", "mmap">>)

\* NewMmapWriter mapping the file MAP_PRIVATE, as the reader does.
NewMmapWriter_Private(filename, f, fault) ==
  LET o == OsOpen(filename, "rw", fault.open)
  IN IF o.err # "nil"
     THEN Built("OpenFailure", NilObj, NoFile, NoData, <<"open">>)
     ELSE LET st == FileStat(o.file, f, fault.stat)
          IN IF st.err # "nil"
             THEN Built("StatFailure", NilObj, FileClose(o.file, fault.close).file,
                        NoData, <<"open", "stat", "close">>)
             ELSE LET mm == UnixMmap(o.file, st.size, TRUE, FALSE, fault.mmap)
                  IN IF mm.err # "nil"
                     THEN Built("MappingFailure", NilObj,
                                FileClose(o.file, fault.close).file, NoData,
                                <<"open", "stat", "mmap", "close">>)
                     ELSE Built("nil", MkObj(o.file, mm.data), o.file, mm.data,
                                <<"open", "stat", "mmap">>)

\* func NewMmapWriter(filename string) (*MmapWriter, error)
\* unix.Mmap(fd, 0, size, PROT_READ|PROT_WRITE, MAP_SHARED)
NewMmapWriter(filename, f, fault) ==
  LET o == OsOpen(filename, "rw", fault.open)
  IN IF o.err # "nil"
     THEN Built("OpenFailure", NilObj, NoFile, NoData, <<"open">>)
     ELSE LET st == FileStat(o.file, f, fault.stat)
          IN IF st.err # "nil"
             THEN Built("StatFailure", NilObj, FileClose(o.file, fault.close).file,
                        NoData, <<"open", "stat", "close">>)
             ELSE LET mm == UnixMmap(o.file, st.size, TRUE, TRUE, fault.mmap)
                  IN IF mm.err # "nil"
                     THEN Built("MappingFailure", NilObj,
                                FileClose(o.file, fault.close).file, NoData,
                                <<"open", "stat", "mmap", "close">>)
                     ELSE Built("nil", MkObj(o.file, mm.data), o.file, mm.data,
                                <<"open", "stat", "mmap">>)

\* What Close returns and does: the error, the object's two resources after
\* the call, and the system calls issued, in order.
Closed(err, obj, trace, err1, err2) ==
  [err |-> err, obj |-> obj, trace |-> trace, err1 |-> err1, err2 |-> err2]

\* func (r *ReaderAtReader) Close() error
ReaderAtReader_Close(r, fault) ==
  LET c == FileClose(r.file, fault.close)
  IN Closed(c.err, [r EXCEPT !.file = c.file], <<"close">>, "nil", c.err)

\* func (w *WriterAtWriter) Close() error
WriterAtWriter_Close(w, fault) ==
  LET c == FileClose(w.file, fault.close)
  IN Closed(c.err, [w EXCEPT !.file = c.file], <<"close">>, "nil", c.err)

\* Close clearing the accessor's fields once it has unmapped and closed.
MmapReader_Close_Reset(m, fault) ==
  LET u == IF ~m.data.nil THEN UnixMunmap(m.data, fault.munmap)
           ELSE [err |-> "nil", data |-> m.data]
      c == IF ~m.file.nil THEN FileClose(m.file, fault.close)
           ELSE [err |-> "nil", file |-> m.file]
      trace == (IF ~m.data.nil THEN <<"munmap">> ELSE <<>>)
               \o (IF ~m.file.nil THEN <<"close">> ELSE <<>>)
  IN Closed(IF u.err # "nil" THEN u.err ELSE c.err,
            [m EXCEPT !.data = NoData, !.file = NoFile], trace, u.err, c.err)

\* func (m *MmapReader) Close() error
MmapReader_Close(m, fault) ==
  LET u == IF ~m.data.nil THEN UnixMunmap(m.data, fault.munmap)
           ELSE [err |-> "nil", data |-> m.data]
      c == IF ~m.file.nil THEN FileClose(m.file, fault.close)
           ELSE [err |-> "nil", file |-> m.file]
      trace == (IF ~m.data.nil THEN <<"munmap">> ELSE <<>>)
               \o (IF ~m.file.nil THEN <<"close">> ELSE <<>>)
  IN Closed(IF u.err # "nil" THEN u.err ELSE c.err,
            [m EXCEPT !.data = u.data, !.file = c.file], trace, u.err, c.err)

\* Close returning the unmap error at once, the file left open.
MmapWriter_Close_EarlyReturn(w, fault) ==
  LET u == IF ~w.data.nil THEN UnixMunmap(w.data, fault.munmap)
           ELSE [err |-> "nil", data |-> w.data]
      c == IF ~w.file.nil THEN FileClose(w.file, fault.close)
           ELSE [err |-> "nil", file |-> w.file]
  IN IF u.err # "nil"
     THEN Closed(u.err, [w EXCEPT !.data = u.data], <<"munmap">>, u.err, "nil")
     ELSE Closed(c.err, [w EXCEPT !.data = u.data, !.file = c.file],
                 <<"munmap", "close">>, u.err, c.err)

\* func (w *MmapWriter) Close() error
MmapWriter_Close(w, fault) ==
  LET u == IF ~w.data.nil THEN UnixMunmap(w.data, fault.munmap)
           ELSE [err |-> "nil", data |-> w.data]
      c == IF ~w.file.nil THEN FileClose(w.file, fault.close)
           ELSE [err |-> "nil", file |-> w.file]
      trace == (IF ~w.data.nil THEN <<"munmap">> ELSE <<>>)
               \o (IF ~w.file.nil THEN <<"close">> ELSE <<>>)
  IN Closed(IF u.err # "nil" THEN u.err ELSE c.err,
            [w EXCEPT !.data = u.data, !.file = c.file], trace, u.err, c.err)

-----------------------------------------------------------------------------
(* Page residency of a mapping: the pages the process has resident, kept   *)
(* as intervals [lo, hi) of page numbers, and whether pages have been      *)
(* dropped since the mapping was made.                                     *)

NoPages == [evicted |-> FALSE, pages |-> {}]

PageOf(off) == off \div PageSize

\* Residency res after pages lo .. hi - 1 were touched.
Touched(res, lo, hi) ==
  IF lo >= hi \/ \E iv \in res.pages : iv.lo <= lo /\ hi <= iv.hi
  THEN res
  ELSE [res EXCEPT !.pages = {iv \in @ : ~(lo <= iv.lo /\ iv.hi <= hi)}
                                \cup {[lo |-> lo, hi |-> hi]}]

\* unix.Madvise(b, MADV_DONTNEED): the pages leave the process; those of a
\* shared file mapping stay in the page cache, while what was stored
\* through a private mapping is lost with its pages.
UnixMadvise(d, f, res, fault) ==
  IF ~d.live THEN [err |-> "ENOMEM", data |-> d, file |-> f, res |-> res]
  ELSE IF fault # "none" THEN [err |-> fault, data |-> d, file |-> f, res |-> res]
  ELSE [err |-> "nil", file |-> f,
        data |-> IF d.shared THEN d ELSE [d EXCEPT !.priv = NoBytes],
        res |-> [evicted |-> TRUE, pages |-> {}]]

\* EvictPages whose advice frees the pages and the file blocks behind them,
\* so that the range reads as zero.
MmapWriter_EvictPages_Discard(w, f, res, fault) ==
  IF w.data.nil THEN [err |-> "nil", data |-> w.data, file |-> f, res |-> res]
  ELSE LET m == UnixMadvise(w.data, f, res, fault)
       IN IF m.err # "nil" THEN m
          ELSE [m EXCEPT !.file =
                  [f EXCEPT !.ext = Overlay(f.ext, OneRun("zero", 0, Min(w.data.len, f.size)))]]

\* func (w *MmapWriter) EvictPages() error
MmapWriter_EvictPages(w, f, res, fault) ==
  IF w.data.nil THEN [err |-> "nil", data |-> w.data, file |-> f, res |-> res]
  ELSE UnixMadvise(w.data, f, res, fault)

\* func (w *MmapWriter) WarmPages(): one load from every page of the mapping.
MmapWriter_WarmPages(w, f, res) ==
  IF w.data.nil \/ w.data.len = 0
  THEN [err |-> "nil", data |-> w.data, file |-> f, res |-> res]
  ELSE IF ~w.data.live
  THEN [err |-> "SIGSEGV", data |-> w.data, file |-> f, res |-> res]
  ELSE [err |-> "nil", data |-> w.data, file |-> f,
        res |-> Touched(res, 0, PageOf(w.data.len - 1) + 1)]

-----------------------------------------------------------------------------
(* State.                                                                  *)
(*   disk      the files, by name                                          *)
(*   acc       the accessor objects the driver holds, by name              *)
(*   handles   file handles the process holds open                         *)
(*   mappings  mappings the process holds                                  *)
(*   last      the most recent call: its inputs, what it returned and did  *)
(*   written   per file and record index, the payload of the most recent   *)
(*             successful WriteRecord (history, not program state)         *)
(*   pending   the call the write-consistency driver has issued to the     *)
(*             positional writer and not yet to the mapped one             *)
(*   resident  the resident pages of the mapped writer's mapping           *)

VARIABLES disk, acc, handles, mappings, last, written, pending, resident

vars == <<disk, acc, handles, mappings, last, written, pending, resident>>

FileNames == {"f1", "f2"}

AccNames == {"ra", "ra2", "mr", "ww", "mw"}

\* Indices around both ends of [0, RecordCount).
Indices == {-1, 0, 1, RecordCount - 1, RecordCount}

ValidIndices == {i \in Indices : 0 <= i /\ i < RecordCount}

\* Destination buffers: nil, one byte short (with and without spare
\* capacity), exact, and one byte over.
Buffers == {NilSlice, MkBuf(RecordSize - 1, RecordSize - 1),
            MkBuf(RecordSize - 1, RecordSize), MkBuf(RecordSize, RecordSize),
            MkBuf(RecordSize + 1, RecordSize + 1)}

ValidPayloads == {Payload(p, RecordSize) : p \in 1..NPatterns}

\* Payloads: the valid ones, one byte short, one byte over.
Payloads == ValidPayloads \cup {Payload(1, RecordSize - 1), Payload(1, RecordSize + 1)}

IoFaults == {NoFault, [err |-> "EIO", n |-> 0]}

NoPending == [nil |-> TRUE, index |-> 0, data |-> NilSlice]

NoCall ==
  [op |-> "none", acc |-> "", index |-> 0, arg |-> NilSlice, fault |-> NoFault,
   faults |-> NoFaults, err |-> "nil", ret |-> NoSlice, buf |-> NilSlice,
   access |-> {}, mod |-> {}, trace |-> <<>>, fsize |-> 0, err1 |-> "nil",
   err2 |-> "nil", file |-> NoFile, data |-> NoData]

\* The call record of a record operation of accessor a with outcome out on
\* file f.
RecordCall(op, a, index, arg, fault, f, d, out) ==
  [NoCall EXCEPT !.op = op, !.acc = a, !.index = index, !.arg = arg,
                 !.fault = fault, !.err = out.err, !.ret = out.ret,
                 !.buf = out.buf, !.access = out.access, !.fsize = f.size,
                 !.mod = (IF out.file # f THEN {"file"} ELSE {})
                         \cup (IF out.data # d THEN {"data"} ELSE {})
                         \cup (IF out.buf # arg THEN {"buf"} ELSE {})]

\* The program is gone once a store or load has faulted.
Alive == last.err # "SIGSEGV"

NoWrites == [i \in {} |-> [torn |-> FALSE, bytes |-> NoBytes]]

Noted(w, name, index, data, out) ==
  IF out.err = "nil"
  THEN [w EXCEPT ![name] = (index :> [torn |-> FALSE, bytes |-> BytesOf(data)]) @@ @]
  ELSE IF out.file # disk[name]
  THEN [w EXCEPT ![name] = (index :> [torn |-> TRUE, bytes |-> NoBytes]) @@ @]
  ELSE w

-----------------------------------------------------------------------------
(* Record operations.                                                      *)

ReaderAtRead(a, index, buf, fault) ==
  /\ Alive /\ ~acc[a].nil
  /\ LET r == acc[a]
         f == disk[r.file.name]
         out == ReaderAtReader_ReadRecord(r, f, index, buf, fault)
     IN last' = RecordCall("ReaderAtReader.ReadRecord", a, index, buf, fault, f, r.data, out)
  /\ UNCHANGED <<disk, acc, handles, mappings, written>>

MmapRead(a, index, buf) ==
  /\ Alive /\ ~acc[a].nil
  /\ LET m == acc[a]
         f == disk[m.file.name]
         out == MmapReader_ReadRecord(m, f, index, buf)
     IN last' = RecordCall("MmapReader.ReadRecord", a, index, buf, NoFault, f, m.data, out)
  /\ UNCHANGED <<disk, acc, handles, mappings, written>>

WriterAtWrite(a, index, data, fault) ==
  /\ Alive /\ ~acc[a].nil
  /\ LET w == acc[a]
         name == w.file.name
         f == disk[name]
         out == WriterAtWriter_WriteRecord(w, f, index, data, fault)
     IN /\ last' = RecordCall("WriterAtWriter.WriteRecord", a, index, data, fault, f, w.data, out)
        /\ disk' = [disk EXCEPT ![name] = out.file]
        /\ written' = Noted(written, name, index, data, out)
  /\ UNCHANGED <<acc, handles, mappings>>

MmapWrite(a, index, data) ==
  /\ Alive /\ ~acc[a].nil
  /\ LET w == acc[a]
         name == w.file.name
         f == disk[name]
         out == MmapWriter_WriteRecord(w, f, index, data)
     IN /\ last' = RecordCall("MmapWriter.WriteRecord", a, index, data, NoFault, f, w.data, out)
        /\ disk' = [disk EXCEPT ![name] = out.file]
        /\ acc' = [acc EXCEPT ![a].data = out.data]
        /\ written' = Noted(written, name, index, data, out)
  /\ UNCHANGED <<handles, mappings>>

\* MmapWriter.WriteRecord whose mapping may be gone.  A store to an unmapped
\* region has no defined outcome: it faults, or, the addresses having been
\* given to something else since (reused), lands there and the call returns
\* nil with nothing written to the file.
MmapWriteStale(a, index, data, reused) ==
  /\ Alive /\ ~acc[a].nil
  /\ LET w == acc[a]
         name == w.file.name
         f == disk[name]
         out0 == MmapWriter_WriteRecord(w, f, index, data)
         out == IF out0.err = "SIGSEGV" /\ reused THEN [out0 EXCEPT !.err = "nil"]
                ELSE out0
     IN /\ last' = RecordCall("MmapWriter.WriteRecord", a, index, data, NoFault, f, w.data, out)
        /\ disk' = [disk EXCEPT ![name] = out.file]
        /\ acc' = [acc EXCEPT ![a].data = out.data]
        /\ written' = Noted(written, name, index, data, out0)
  /\ UNCHANGED <<handles, mappings>>

\* The caller loads from a view ReadRecord returned earlier for record
\* index of accessor a.  A load from an unmapped region faults or, the
\* addresses reused, returns whatever is there now.
ViewLoad(a, index, reused) ==
  /\ Alive /\ ~acc[a].nil
  /\ LET m == acc[a]
         f == disk[m.file.name]
         live == m.data.live
     IN last' = [NoCall EXCEPT
                   !.op = "load", !.acc = a, !.index = index,
                   !.err = IF live \/ reused THEN "nil" ELSE "SIGSEGV",
                   !.fsize = f.size,
                   !.ret = [store |-> IF live THEN "map"
                                      ELSE IF reused THEN "foreign" ELSE "unmapped",
                            lo |-> Offset(index), hi |-> Offset(index) + RecordSize,
                            bytes |-> IF live
                                      THEN MapBytes(m.data, f, Offset(index), RecordSize)
                                      ELSE NoBytes]]
  /\ UNCHANGED <<disk, acc, handles, mappings, written>>

\* The call record of a page-residency call of accessor a.
PageCall(op, a, fault, f, d, out) ==
  [NoCall EXCEPT !.op = op, !.acc = a, !.fault = [err |-> fault, n |-> 0],
                 !.err = out.err, !.fsize = f.size,
                 !.mod = (IF out.file # f THEN {"file"} ELSE {})
                         \cup (IF out.data # d THEN {"data"} ELSE {})]

MmapEvict(a, fault) ==
  /\ Alive /\ ~acc[a].nil
  /\ LET w == acc[a]
         name == w.file.name
         out == MmapWriter_EvictPages(w, disk[name], resident, fault)
     IN /\ last' = PageCall("MmapWriter.EvictPages", a, fault, disk[name], w.data, out)
        /\ disk' = [disk EXCEPT ![name] = out.file]
        /\ acc' = [acc EXCEPT ![a].data = out.data]
        /\ resident' = out.res
  /\ UNCHANGED <<handles, mappings, written>>

MmapWarm(a) ==
  /\ Alive /\ ~acc[a].nil
  /\ LET w == acc[a]
         name == w.file.name
         out == MmapWriter_WarmPages(w, disk[name], resident)
     IN /\ last' = PageCall("MmapWriter.WarmPages", a, "none", disk[name], w.data, out)
        /\ disk' = [disk EXCEPT ![name] = out.file]
        /\ acc' = [acc EXCEPT ![a].data = out.data]
        /\ resident' = out.res
  /\ UNCHANGED <<handles, mappings, written>>

-----------------------------------------------------------------------------
(* Construction and teardown steps.                                        *)

Held(b) == IF b THEN 1 ELSE 0

Construct(op, a, b, fault) ==
  /\ acc' = [acc EXCEPT ![a] = b.obj]
  /\ handles' = handles + Held(b.file.open)
  /\ mappings' = mappings + Held(b.data.live)
  /\ last' = [NoCall EXCEPT !.op = op, !.acc = a, !.faults = fault, !.err = b.err,
                            !.trace = b.trace, !.file = b.file, !.data = b.data]
  /\ UNCHANGED <<disk, written>>

OpenReaderAt(a, name, fault) ==
  /\ Alive /\ acc[a].nil
  /\ Construct("NewReaderAtReader", a, NewReaderAtReader(name, disk[name], fault), fault)

OpenWriterAt(a, name, fault) ==
  /\ Alive /\ acc[a].nil
  /\ Construct("NewWriterAtWriter", a, NewWriterAtWriter(name, disk[name], fault), fault)

OpenMmapReader(a, name, fault) ==
  /\ Alive /\ acc[a].nil
  /\ Construct("NewMmapReader", a, NewMmapReader(name, disk[name], fault), fault)

OpenMmapWriter(a, name, fault) ==
  /\ Alive /\ acc[a].nil
  /\ Construct("NewMmapWriter", a, NewMmapWriter(name, disk[name], fault), fault)

Teardown(op, a, c, fault) ==
  /\ acc' = [acc EXCEPT ![a] = c.obj]
  /\ handles' = handles - Held(acc[a].file.open /\ ~c.obj.file.open)
  /\ mappings' = mappings - Held(acc[a].data.live /\ ~c.obj.data.live)
  /\ last' = [NoCall EXCEPT !.op = op, !.acc = a, !.faults = fault, !.err = c.err,
                            !.trace = c.trace, !.err1 = c.err1, !.err2 = c.err2,
                            !.file = c.obj.file, !.data = c.obj.data]
  /\ UNCHANGED <<disk, written>>

CloseReaderAt(a, fault) ==
  /\ Alive /\ ~acc[a].nil
  /\ Teardown("ReaderAtReader.Close", a, ReaderAtReader_Close(acc[a], fault), fault)

CloseWriterAt(a, fault) ==
  /\ Alive /\ ~acc[a].nil
  /\ Teardown("WriterAtWriter.Close", a, WriterAtWriter_Close(acc[a], fault), fault)

CloseMmapReader(a, fault) ==
  /\ Alive /\ ~acc[a].nil
  /\ Teardown("MmapReader.Close", a, MmapReader_Close(acc[a], fault), fault)

CloseMmapWriter(a, fault) ==
  /\ Alive /\ ~acc[a].nil
  /\ Teardown("MmapWriter.Close", a, MmapWriter_Close(acc[a], fault), fault)

-----------------------------------------------------------------------------
(* Record operations on open accessors: both readers and both writers on   *)
(* one file, of full or short length.                                      *)

\* File lengths: short and not a multiple of RecordSize, one record short,
\* one byte short, full.
OpsSizes == {RecordSize + RecordSize \div 2, FullSize - RecordSize, FullSize - 1, FullSize}

Opened(b) == b.obj

Init ==
  /\ \E sz \in OpsSizes : disk = [n \in FileNames |-> NewFile(sz)]
  /\ acc = [a \in AccNames |->
             CASE a = "ra" -> Opened(NewReaderAtReader("f1", disk["f1"], NoFaults))
               [] a = "mr" -> Opened(NewMmapReader("f1", disk["f1"], NoFaults))
               [] a = "ww" -> Opened(NewWriterAtWriter("f1", disk["f1"], NoFaults))
               [] a = "mw" -> Opened(NewMmapWriter("f1", disk["f1"], NoFaults))
               [] OTHER -> NilObj]
  /\ handles = Cardinality({a \in AccNames : acc[a].file.open})
  /\ mappings = Cardinality({a \in AccNames : acc[a].data.live})
  /\ last = NoCall
  /\ written = [n \in FileNames |-> NoWrites]
  /\ pending = NoPending
  /\ resident = NoPages

ReadRA ==
  \E index \in Indices, buf \in Buffers, fault \in IoFaults :
    ReaderAtRead("ra", index, buf, fault) /\ UNCHANGED <<pending, resident>>

ReadMmap ==
  \E index \in Indices, buf \in Buffers :
    MmapRead("mr", index, buf) /\ UNCHANGED <<pending, resident>>

WriteWA ==
  \E index \in Indices, data \in Payloads, fault \in IoFaults :
    WriterAtWrite("ww", index, data, fault) /\ UNCHANGED <<pending, resident>>

WriteMmap ==
  \E index \in Indices, data \in Payloads :
    MmapWrite("mw", index, data) /\ UNCHANGED <<pending, resident>>

Next == ReadRA \/ ReadMmap \/ WriteWA \/ WriteMmap

Spec == Init /\ [][Next]_vars

-----------------------------------------------------------------------------
(* The write-consistency driver (TestWriterConsistency): two copies of one *)
(* file, the positional writer on the first and the mapped writer on the   *)
(* second; every call goes to the positional writer and then, with the     *)
(* same arguments, to the mapped one; the writers are closed and the       *)
(* copies read back through positional readers.  The driver writes only    *)
(* while both writers are open, and the storage does what it is asked.     *)

PairSizes == {RecordSize + RecordSize \div 2, FullSize}

PairIndices == {0 - 1, 0, RecordCount - 1}

\* One pattern more than the record-operation runs use, so that a record is
\* overwritten with a different payload.
PairPayloads ==
  {Payload(p, RecordSize) : p \in 1..(NPatterns + 1)} \cup {Payload(1, RecordSize - 1)}

CloseFaults ==
  {[NoFaults EXCEPT !.munmap = m, !.close = c] :
     m \in {"none", "ENOMEM"}, c \in {"none", "EIO"}}

InitPair ==
  /\ \E sz \in PairSizes : disk = [n \in FileNames |-> NewFile(sz)]
  /\ acc = [a \in AccNames |->
             CASE a = "ra" -> Opened(NewReaderAtReader("f1", disk["f1"], NoFaults))
               [] a = "ra2" -> Opened(NewReaderAtReader("f2", disk["f2"], NoFaults))
               [] a = "ww" -> Opened(NewWriterAtWriter("f1", disk["f1"], NoFaults))
               [] a = "mw" -> Opened(NewMmapWriter("f2", disk["f2"], NoFaults))
               [] OTHER -> NilObj]
  /\ handles = Cardinality({a \in AccNames : acc[a].file.open})
  /\ mappings = Cardinality({a \in AccNames : acc[a].data.live})
  /\ last = NoCall
  /\ written = [n \in FileNames |-> NoWrites]
  /\ pending = NoPending
  /\ resident = NoPages

PairWriteWA ==
  /\ pending.nil /\ acc["ww"].file.open /\ acc["mw"].file.open
  /\ \E index \in PairIndices, data \in PairPayloads :
       /\ WriterAtWrite("ww", index, data, NoFault)
       /\ pending' = [nil |-> FALSE, index |-> index, data |-> data]
  /\ UNCHANGED resident

PairWriteMmap ==
  /\ ~pending.nil
  /\ MmapWrite("mw", pending.index, pending.data)
  /\ pending' = NoPending
  /\ UNCHANGED resident

PairCloseWA ==
  /\ pending.nil
  /\ \E fault \in CloseFaults : CloseWriterAt("ww", fault)
  /\ UNCHANGED <<pending, resident>>

PairCloseMmap ==
  /\ pending.nil
  /\ \E fault \in CloseFaults : CloseMmapWriter("mw", fault)
  /\ UNCHANGED <<pending, resident>>

PairReadBack ==
  /\ pending.nil
  /\ \E a \in {"ra", "ra2"}, index \in PairIndices :
       ReaderAtRead(a, index, MkBuf(RecordSize, RecordSize), NoFault)
  /\ UNCHANGED <<pending, resident>>

NextPair ==
  PairWriteWA \/ PairWriteMmap \/ PairCloseWA \/ PairCloseMmap \/ PairReadBack

SpecPair == InitPair /\ [][NextPair]_vars

-----------------------------------------------------------------------------
(* Construction and teardown of the four accessors, with failing system    *)
(* calls, on a file that is empty, short or full.                          *)

LifeSizes == {0, RecordSize + RecordSize \div 2, FullSize}

BuildFaults ==
  {[NoFaults EXCEPT !.open = o, !.stat = st, !.mmap = m, !.close = c] :
     o \in {"none", "ENOENT"}, st \in {"none", "EIO"},
     m \in {"none", "ENOMEM"}, c \in {"none", "EIO"}}

InitLife ==
  /\ \E sz \in LifeSizes : disk = [n \in FileNames |-> NewFile(sz)]
  /\ acc = [a \in AccNames |-> NilObj]
  /\ handles = 0
  /\ mappings = 0
  /\ last = NoCall
  /\ written = [n \in FileNames |-> NoWrites]
  /\ pending = NoPending
  /\ resident = NoPages

LifeOpenRA == (\E fault \in BuildFaults : OpenReaderAt("ra", "f1", fault)) /\ UNCHANGED <<pending, resident>>

LifeOpenWA == (\E fault \in BuildFaults : OpenWriterAt("ww", "f1", fault)) /\ UNCHANGED <<pending, resident>>

LifeOpenMR == (\E fault \in BuildFaults : OpenMmapReader("mr", "f1", fault)) /\ UNCHANGED <<pending, resident>>

LifeOpenMW == (\E fault \in BuildFaults : OpenMmapWriter("mw", "f1", fault)) /\ UNCHANGED <<pending, resident>>

LifeCloseRA == (\E fault \in CloseFaults : CloseReaderAt("ra", fault)) /\ UNCHANGED <<pending, resident>>

LifeCloseWA == (\E fault \in CloseFaults : CloseWriterAt("ww", fault)) /\ UNCHANGED <<pending, resident>>

LifeCloseMR == (\E fault \in CloseFaults : CloseMmapReader("mr", fault)) /\ UNCHANGED <<pending, resident>>

LifeCloseMW == (\E fault \in CloseFaults : CloseMmapWriter("mw", fault)) /\ UNCHANGED <<pending, resident>>

NextLife ==
  \/ LifeOpenRA \/ LifeOpenWA \/ LifeOpenMR \/ LifeOpenMW
  \/ LifeCloseRA \/ LifeCloseWA \/ LifeCloseMR \/ LifeCloseMW

SpecLife == InitLife /\ [][NextLife]_vars

-----------------------------------------------------------------------------
(* Positional I/O against storage that fails or falls short: reads that    *)
(* meet the end of a short file, reads and writes that report an error     *)
(* after none or half of the bytes.                                        *)

IoSizes == {RecordSize + RecordSize \div 2, FullSize}

IoReadIndices == {0 - 1, 0, 1, RecordCount - 1}

IoWriteIndices == {0 - 1, 0, 1}

IoBuffers == {MkBuf(RecordSize - 1, RecordSize - 1), MkBuf(RecordSize, RecordSize)}

IoPayloads ==
  {Payload(p, RecordSize) : p \in 1..NPatterns} \cup {Payload(1, RecordSize - 1)}

\* pread: no fault, or EIO after no byte or after half of the record.
ReadFaults ==
  {NoFault, [err |-> "EIO", n |-> 0], [err |-> "EIO", n |-> RecordSize \div 2]}

\* pwrite: no fault, EIO after no byte, or no space left after half of the
\* record.  WriteAt reports an error whenever it wrote less than it was
\* given.
WriteFaults ==
  {NoFault, [err |-> "EIO", n |-> 0], [err |-> "ENOSPC", n |-> RecordSize \div 2]}

InitIo ==
  /\ \E sz \in IoSizes : disk = [n \in FileNames |-> NewFile(sz)]
  /\ acc = [a \in AccNames |->
             CASE a = "ra" -> Opened(NewReaderAtReader("f1", disk["f1"], NoFaults))
               [] a = "ww" -> Opened(NewWriterAtWriter("f1", disk["f1"], NoFaults))
               [] OTHER -> NilObj]
  /\ handles = Cardinality({a \in AccNames : acc[a].file.open})
  /\ mappings = Cardinality({a \in AccNames : acc[a].data.live})
  /\ last = NoCall
  /\ written = [n \in FileNames |-> NoWrites]
  /\ pending = NoPending
  /\ resident = NoPages

IoRead ==
  \E index \in IoReadIndices, buf \in IoBuffers, fault \in ReadFaults :
    ReaderAtRead("ra", index, buf, fault) /\ UNCHANGED <<pending, resident>>

IoWrite ==
  \E index \in IoWriteIndices, data \in IoPayloads, fault \in WriteFaults :
    WriterAtWrite("ww", index, data, fault) /\ UNCHANGED <<pending, resident>>

NextIo == IoRead \/ IoWrite

SpecIo == InitIo /\ [][NextIo]_vars

-----------------------------------------------------------------------------
(* Record geometry: the four operations, with valid arguments, on the      *)
(* indices the tests use and on neighbours at both ends of the file.       *)

GeomIndices == {0, 1, 1000, 500000, RecordCount - 2, RecordCount - 1}

InitGeom ==
  /\ disk = [n \in FileNames |-> NewFile(FullSize)]
  /\ acc = [a \in AccNames |->
             CASE a = "ra" -> Opened(NewReaderAtReader("f1", disk["f1"], NoFaults))
               [] a = "mr" -> Opened(NewMmapReader("f1", disk["f1"], NoFaults))
               [] a = "ww" -> Opened(NewWriterAtWriter("f1", disk["f1"], NoFaults))
               [] a = "mw" -> Opened(NewMmapWriter("f1", disk["f1"], NoFaults))
               [] OTHER -> NilObj]
  /\ handles = Cardinality({a \in AccNames : acc[a].file.open})
  /\ mappings = Cardinality({a \in AccNames : acc[a].data.live})
  /\ last = NoCall
  /\ written = [n \in FileNames |-> NoWrites]
  /\ pending = NoPending
  /\ resident = NoPages

GeomReadRA ==
  \E index \in GeomIndices :
    ReaderAtRead("ra", index, MkBuf(RecordSize, RecordSize), NoFault)
    /\ UNCHANGED <<pending, resident>>

GeomReadMmap ==
  \E index \in GeomIndices :
    MmapRead("mr", index, NilSlice) /\ UNCHANGED <<pending, resident>>

GeomWriteWA ==
  \E index \in GeomIndices :
    WriterAtWrite("ww", index, Payload(1, RecordSize), NoFault)
    /\ UNCHANGED <<pending, resident>>

GeomWriteMmap ==
  \E index \in GeomIndices :
    MmapWrite("mw", index, Payload(1, RecordSize)) /\ UNCHANGED <<pending, resident>>

NextGeom == GeomReadRA \/ GeomReadMmap \/ GeomWriteWA \/ GeomWriteMmap

SpecGeom == InitGeom /\ [][NextGeom]_vars

-----------------------------------------------------------------------------
(* Mapped accessors used past their Close: reads, writes, loads from a     *)
(* view handed out earlier, and Close again, in any order.  pending holds  *)
(* the index of the view the caller keeps.                                 *)

StaleSizes == {RecordSize + RecordSize \div 2, FullSize}

StaleIndices == {0 - 1, 0, RecordCount - 1}

StalePayloads == {Payload(1, RecordSize), Payload(1, RecordSize - 1)}

InitStale ==
  /\ \E sz \in StaleSizes : disk = [n \in FileNames |-> NewFile(sz)]
  /\ acc = [a \in AccNames |->
             CASE a = "mr" -> Opened(NewMmapReader("f1", disk["f1"], NoFaults))
               [] a = "mw" -> Opened(NewMmapWriter("f1", disk["f1"], NoFaults))
               [] OTHER -> NilObj]
  /\ handles = Cardinality({a \in AccNames : acc[a].file.open})
  /\ mappings = Cardinality({a \in AccNames : acc[a].data.live})
  /\ last = NoCall
  /\ written = [n \in FileNames |-> NoWrites]
  /\ pending = NoPending
  /\ resident = NoPages

StaleRead ==
  \E index \in StaleIndices :
    /\ MmapRead("mr", index, NilSlice)
    /\ pending' = IF last'.err = "nil"
                  THEN [nil |-> FALSE, index |-> index, data |-> NilSlice]
                  ELSE pending
    /\ UNCHANGED resident

StaleLoad ==
  /\ ~pending.nil
  /\ \E reused \in BOOLEAN : ViewLoad("mr", pending.index, reused)
  /\ UNCHANGED <<pending, resident>>

StaleWrite ==
  \E index \in StaleIndices, data \in StalePayloads, reused \in BOOLEAN :
    MmapWriteStale("mw", index, data, reused) /\ UNCHANGED <<pending, resident>>

StaleCloseMR ==
  (\E fault \in CloseFaults : CloseMmapReader("mr", fault))
  /\ UNCHANGED <<pending, resident>>

StaleCloseMW ==
  (\E fault \in CloseFaults : CloseMmapWriter("mw", fault))
  /\ UNCHANGED <<pending, resident>>

NextStale == StaleRead \/ StaleLoad \/ StaleWrite \/ StaleCloseMR \/ StaleCloseMW

SpecStale == InitStale /\ [][NextStale]_vars

-----------------------------------------------------------------------------
(* Page-residency control on an open mapped writer                         *)
(* (BenchmarkColdVsWarmPages): writes, evictions and warm-ups in any       *)
(* order, then Close; the file is read back positionally at any time.      *)

PagesSizes == {RecordSize + RecordSize \div 2, FullSize}

PagesIndices == {0, RecordCount - 1}

PagesPayloads == {Payload(p, RecordSize) : p \in 1..(NPatterns + 1)}

InitPages ==
  /\ \E sz \in PagesSizes : disk = [n \in FileNames |-> NewFile(sz)]
  /\ acc = [a \in AccNames |->
             CASE a = "ra" -> Opened(NewReaderAtReader("f1", disk["f1"], NoFaults))
               [] a = "mw" -> Opened(NewMmapWriter("f1", disk["f1"], NoFaults))
               [] OTHER -> NilObj]
  /\ handles = Cardinality({a \in AccNames : acc[a].file.open})
  /\ mappings = Cardinality({a \in AccNames : acc[a].data.live})
  /\ last = NoCall
  /\ written = [n \in FileNames |-> NoWrites]
  /\ pending = NoPending
  /\ resident = NoPages

PagesWrite ==
  /\ acc["mw"].file.open
  /\ \E index \in PagesIndices, data \in PagesPayloads :
       /\ MmapWrite("mw", index, data)
       /\ resident' = IF last'.err = "nil"
                      THEN Touched(resident, PageOf(Offset(index)),
                                   PageOf(Offset(index) + RecordSize - 1) + 1)
                      ELSE resident
  /\ UNCHANGED pending

PagesEvict ==
  /\ acc["mw"].file.open
  /\ \E fault \in {"none", "EINVAL"} : MmapEvict("mw", fault)
  /\ UNCHANGED pending

PagesWarm ==
  /\ acc["mw"].file.open
  /\ MmapWarm("mw")
  /\ UNCHANGED pending

PagesClose ==
  /\ acc["mw"].file.open
  /\ CloseMmapWriter("mw", NoFaults)
  /\ resident' = NoPages
  /\ UNCHANGED pending

PagesReadBack ==
  /\ \E index \in PagesIndices :
       ReaderAtRead("ra", index, MkBuf(RecordSize, RecordSize), NoFault)
  /\ UNCHANGED <<pending, resident>>

NextPages == PagesWrite \/ PagesEvict \/ PagesWarm \/ PagesClose \/ PagesReadBack

SpecPages == InitPages /\ [][NextPages]_vars

-----------------------------------------------------------------------------
(* Properties of the record operations, stated on the most recent call.    *)

ReadOps == {"ReaderAtReader.ReadRecord", "MmapReader.ReadRecord"}

WriteOps == {"WriterAtWriter.WriteRecord", "MmapWriter.WriteRecord"}

MappedOps == {"MmapReader.ReadRecord", "MmapWriter.WriteRecord"}

RecordOps == ReadOps \cup WriteOps

InRange(index) == 0 <= index /\ index < RecordCount

\* The accessor of the most recent call and the file it is opened on.
LastAcc == acc[last.acc]

LastFile == disk[LastAcc.file.name]

\* The most recent call found its accessor open on a file of
\* RecordSize * RecordCount bytes (and mapped in full, for a mapped accessor).
OnFullFile ==
  /\ last.fsize = FullSize
  /\ LastAcc.file.open
  /\ last.op \in MappedOps => LastAcc.data.live /\ LastAcc.data.len = FullSize

\* The most recent call's arguments other than the index were valid and the
\* storage did what it was asked.
ValidArgs ==
  /\ last.fault = NoFault
  /\ last.op = "ReaderAtReader.ReadRecord" => last.arg.len >= RecordSize
  /\ last.op \in WriteOps => last.arg.len = RecordSize

\* Bytes [index * RecordSize, (index + 1) * RecordSize) of file f.
RecordOf(f, index) == FileBytes(f, index * RecordSize, RecordSize)

\* C1: on a file of RecordSize * RecordCount bytes, a read of a valid index
\* through either reader (the positional one with a buffer of at least
\* RecordSize bytes) succeeds and returns exactly RecordSize bytes, which are
\* the file's bytes of that record and the bytes the other reader returns for
\* the same index.
C1_ReadEquivalence ==
  (/\ last.op \in ReadOps
   /\ InRange(last.index)
   /\ OnFullFile /\ ValidArgs)
  => LET other == IF last.op = "ReaderAtReader.ReadRecord"
                  THEN MmapReader_ReadRecord(acc["mr"], disk[acc["mr"].file.name],
                                             last.index, NilSlice)
                  ELSE ReaderAtReader_ReadRecord(acc["ra"], disk[acc["ra"].file.name],
                                                 last.index,
                                                 MkBuf(RecordSize, RecordSize), NoFault)
     IN /\ last.err = "nil"
        /\ last.ret.hi - last.ret.lo = RecordSize
        /\ BLen(last.ret.bytes) = RecordSize
        /\ SameBytes(last.ret.bytes, RecordOf(LastFile, last.index))
        /\ (acc["mr"].data.len = FullSize /\ acc["mr"].file.name = acc["ra"].file.name)
           => /\ other.err = "nil"
              /\ SameBytes(last.ret.bytes, other.ret.bytes)

\* A mapped read of the last record of a full file that a writer has changed.
C1_Witness ==
  /\ last.op = "MmapReader.ReadRecord"
  /\ last.index = RecordCount - 1
  /\ OnFullFile
  /\ last.err = "nil"
  /\ (RecordCount - 1) \in DOMAIN written["f1"]

\* Both writers of the write-consistency driver have been given the same
\* calls and have been closed, and both copies were created full-size.
PairDone ==
  /\ pending.nil
  /\ ~acc["ww"].file.open /\ ~acc["mw"].file.open
  /\ \A n \in FileNames : disk[n].base = FullSize

OtherFile(n) == IF n = "f1" THEN "f2" ELSE "f1"

\* Record index as the file was created.
OrigRecord(index) ==
  Slice(OneRun("orig", 0, FullSize), index * RecordSize, index * RecordSize + RecordSize)

\* C2: two full-size copies of one file, one given a sequence of WriteRecord
\* calls through WriterAtWriter and the other the same sequence through
\* MmapWriter, hold the same bytes once both writers are closed, and a
\* positional read-back of any valid index returns from either copy the
\* record the other copy holds.
C2_WriteEquivalence ==
  PairDone
  => /\ SameContent(disk["f1"], disk["f2"])
     /\ (last.op = "ReaderAtReader.ReadRecord" /\ InRange(last.index))
        => /\ last.err = "nil"
           /\ SameBytes(last.ret.bytes,
                        RecordOf(disk[OtherFile(LastAcc.file.name)], last.index))

\* Both copies hold a written last record, the writers are closed and the
\* copy the mapped writer wrote is read back at that record.
C2_Witness ==
  /\ PairDone
  /\ last.op = "ReaderAtReader.ReadRecord"
  /\ last.acc = "ra2"
  /\ last.index = RecordCount - 1
  /\ (RecordCount - 1) \in DOMAIN written["f1"]
  /\ (RecordCount - 1) \in DOMAIN written["f2"]

\* C3: after a writer of either kind has written a full-size file and been
\* closed, a positional read of a valid index returns the payload of the most
\* recent successful WriteRecord to that index, and the record the file was
\* created with if the index was never written.
C3_WriteReadRoundTrip ==
  (/\ PairDone
   /\ last.op = "ReaderAtReader.ReadRecord"
   /\ InRange(last.index))
  => LET w == written[LastAcc.file.name]
     IN /\ last.err = "nil"
        /\ BLen(last.ret.bytes) = RecordSize
        /\ last.index \in DOMAIN w
           => /\ ~w[last.index].torn
              /\ SameBytes(last.ret.bytes, w[last.index].bytes)
        /\ last.index \notin DOMAIN w
           => SameBytes(last.ret.bytes, OrigRecord(last.index))

\* The mapped writer's copy is read back at a record whose last payload is
\* not the first pattern, while another record was never written.
C3_Witness ==
  /\ PairDone
  /\ last.op = "ReaderAtReader.ReadRecord"
  /\ last.acc = "ra2"
  /\ last.index = 0
  /\ 0 \in DOMAIN written["f2"]
  /\ written["f2"][0].bytes # BytesOf(Payload(1, RecordSize))
  /\ (RecordCount - 1) \notin DOMAIN written["f2"]

\* C4: on a full-size file and with otherwise valid arguments, each of the
\* four record operations succeeds for every index in [0, RecordCount) and
\* fails with the index-out-of-range error for every other index.
C4_IndexBoundary ==
  (last.op \in RecordOps /\ OnFullFile /\ ValidArgs)
  => /\ InRange(last.index) => last.err = "nil"
     /\ ~InRange(last.index) => last.err = "IndexOutOfRange"

\* A mapped write of the last record that succeeded.
C4_Witness ==
  /\ last.op = "MmapWriter.WriteRecord"
  /\ last.index = RecordCount - 1
  /\ OnFullFile /\ ValidArgs
  /\ last.err = "nil"

\* C5: a record operation called with an index outside [0, RecordCount)
\* returns the index-out-of-range error whatever its other arguments, the
\* file's length and the storage's state are, returns no slice, and neither
\* reads nor changes the file, the mapping or the caller's buffer.
C5_IndexCheckFirst ==
  (last.op \in RecordOps /\ ~InRange(last.index))
  => /\ last.err = "IndexOutOfRange"
     /\ last.ret = NoSlice
     /\ last.access = {}
     /\ last.mod = {}

\* A positional read of index -1 with a nil buffer and failing storage.
C5_Witness ==
  /\ last.op = "ReaderAtReader.ReadRecord"
  /\ last.index = 0 - 1
  /\ last.arg = NilSlice
  /\ last.fault # NoFault
  /\ last.err = "IndexOutOfRange"

\* C6: a write of a valid index through either writer fails with the
\* size-mismatch error whenever the payload is not RecordSize bytes long, and
\* then touches and changes no byte of the file or mapping.
C6_FixedSizeWrites ==
  (last.op \in WriteOps /\ InRange(last.index) /\ last.arg.len # RecordSize)
  => /\ last.err = "SizeMismatch"
     /\ last.access = {}
     /\ last.mod = {}

\* A positional write of RecordSize + 1 bytes that was refused.
C6_Witness ==
  /\ last.op = "WriterAtWriter.WriteRecord"
  /\ last.index = 0
  /\ last.arg.len = RecordSize + 1
  /\ last.err = "SizeMismatch"

\* What MmapReader.ReadRecord does with its buffer argument: nothing.
MmapIgnoresBuffer ==
  last.op = "MmapReader.ReadRecord"
  => LET o == MmapReader_ReadRecord(LastAcc, LastFile, last.index, NilSlice)
     IN /\ last.err # "BufferTooSmall"
        /\ last.buf = last.arg
        /\ last.err = o.err /\ last.ret = o.ret
        /\ (InRange(last.index) /\ OnFullFile) => last.err = "nil"

\* C7 as claimed: for a valid index the positional read fails with the
\* buffer-too-small error if and only if the buffer's capacity is less than
\* RecordSize, and the mapped read never inspects its buffer.
C7_CapacityAsClaimed ==
  /\ (last.op = "ReaderAtReader.ReadRecord" /\ InRange(last.index))
     => (last.err = "BufferTooSmall" <=> BLen(last.arg.arr) < RecordSize)
  /\ MmapIgnoresBuffer

\* C7, amended: for a valid index the positional read fails with the
\* buffer-too-small error if and only if the buffer's length is less than
\* RecordSize (spare capacity does not count), and the mapped read never
\* inspects its buffer: it succeeds with a nil or undersized one, and its
\* result and the buffer are the same whichever buffer is passed.
C7_BufferRequirement ==
  /\ (last.op = "ReaderAtReader.ReadRecord" /\ InRange(last.index))
     => (last.err = "BufferTooSmall" <=> last.arg.len < RecordSize)
  /\ MmapIgnoresBuffer

\* A positional read refused for a buffer of length RecordSize - 1 whose
\* capacity is RecordSize.
C7_Witness ==
  /\ last.op = "ReaderAtReader.ReadRecord"
  /\ InRange(last.index)
  /\ last.arg.len = RecordSize - 1
  /\ BLen(last.arg.arr) = RecordSize
  /\ last.err = "BufferTooSmall"

\* C8: for a mapping of any length L and an index in [0, RecordCount), a
\* mapped read or (with a payload of RecordSize bytes) write fails with the
\* bounds error exactly when index * RecordSize + RecordSize > L, and
\* otherwise touches exactly bytes [index * RecordSize, index * RecordSize +
\* RecordSize); no mapped operation touches a byte at position L or beyond.
C8_MappedBounds ==
  last.op \in MappedOps
  => LET L == LastAcc.data.len
         lo == last.index * RecordSize
     IN /\ (InRange(last.index) /\ (last.op \in WriteOps => last.arg.len = RecordSize))
           => /\ last.err = "BoundsExceeded" <=> lo + RecordSize > L
              /\ last.err = "BoundsExceeded" => last.access = {} /\ last.mod = {}
              /\ last.err # "BoundsExceeded"
                 => \A r \in last.access : r.lo = lo /\ r.hi = lo + RecordSize
              /\ last.err # "BoundsExceeded" => last.access # {}
        /\ \A r \in last.access : 0 <= r.lo /\ r.hi <= L

\* A mapped write of the last record refused on a mapping one byte short.
C8_Witness ==
  /\ last.op = "MmapWriter.WriteRecord"
  /\ last.index = RecordCount - 1
  /\ last.arg.len = RecordSize
  /\ LastAcc.data.len = FullSize - 1
  /\ last.err = "BoundsExceeded"

MmapCloses == {"MmapReader.Close", "MmapWriter.Close"}

MmapNews == {"NewMmapReader", "NewMmapWriter"}

\* C9: Close of a mapped accessor unmaps first and closes the file second,
\* closes the file even when the unmap failed, and returns the unmap error
\* if there is one, else the close error, else nil.
C9_TeardownOrder ==
  last.op \in MmapCloses
  => /\ last.trace = <<"munmap", "close">>
     /\ ~LastAcc.file.open
     /\ last.err1 = "nil" => ~LastAcc.data.live
     /\ LastAcc.data.live => last.err1 = last.faults.munmap
     /\ last.err = IF last.err1 # "nil" THEN last.err1 ELSE last.err2

\* The unmap and the close both failed: the file is closed all the same and
\* the unmap error is the one returned.
C9_Witness ==
  /\ last.op = "MmapWriter.Close"
  /\ last.err1 = "ENOMEM"
  /\ last.err2 = "EIO"
  /\ last.err = "ENOMEM"
  /\ LastAcc.data.live
  /\ ~LastAcc.file.open

\* C10: NewMmapReader and NewMmapWriter either return an accessor that owns
\* one open file handle and one live mapping, or return an error and no
\* accessor with the file handle they opened closed again and nothing
\* mapped; no handle or mapping is ever held outside an accessor.
C10_NoHandleLeak ==
  /\ handles = Cardinality({a \in AccNames : acc[a].file.open})
  /\ mappings = Cardinality({a \in AccNames : acc[a].data.live})
  /\ last.op \in MmapNews
     => \/ /\ last.err = "nil"
           /\ ~LastAcc.nil
           /\ LastAcc.file = last.file /\ last.file.open
           /\ LastAcc.data = last.data /\ last.data.live
        \/ /\ last.err # "nil"
           /\ LastAcc.nil
           /\ ~last.file.open
           /\ ~last.data.live
           /\ last.err \in {"StatFailure", "MappingFailure"}
              => last.trace[Len(last.trace)] = "close"

\* The mapping of an empty file was refused, with no fault injected, while
\* another accessor holds its own handle.
C10_Witness ==
  /\ last.op = "NewMmapReader"
  /\ last.err = "MappingFailure"
  /\ last.faults = NoFaults
  /\ last.trace = <<"open", "stat", "mmap", "close">>
  /\ handles = 1

PageOps == {"MmapWriter.EvictPages", "MmapWriter.WarmPages"}

\* What record index of file name holds if only the writes count: the
\* payload of the most recent successful WriteRecord, else what the file was
\* created with.
Expected(name, index) ==
  IF index \in DOMAIN written[name] THEN written[name][index].bytes
  ELSE OrigRecord(index)

\* C11: on an open MmapWriter, EvictPages and WarmPages, in any number and
\* interleaved with writes, change neither the file nor the mapping's
\* content: every record, seen through the mapping and in the file, holds
\* the most recently written payload or else its original content, as if
\* the two had never been called.
C11_ResidencyPreservesContent ==
  /\ last.op \in PageOps => last.mod = {} /\ LastFile.size = last.fsize
  /\ \A index \in PagesIndices :
       Offset(index) + RecordSize <= disk["f1"].size
       => /\ SameBytes(RecordOf(disk["f1"], index), Expected("f1", index))
          /\ acc["mw"].data.live
             => SameBytes(MapBytes(acc["mw"].data, disk["f1"], Offset(index), RecordSize),
                          Expected("f1", index))
          /\ (last.op = "ReaderAtReader.ReadRecord" /\ last.index = index)
             => last.err = "nil" /\ SameBytes(last.ret.bytes, Expected("f1", index))

\* The whole mapping was warmed after an eviction, with the first record
\* overwritten by a second payload and still mapped.
C11_Witness ==
  /\ last.op = "MmapWriter.WarmPages"
  /\ last.err = "nil"
  /\ resident.evicted
  /\ resident.pages = {[lo |-> 0, hi |-> PageOf(FullSize - 1) + 1]}
  /\ acc["mw"].data.live
  /\ 0 \in DOMAIN written["f1"]
  /\ written["f1"][0].bytes # BytesOf(Payload(1, RecordSize))

\* Bytes of the record of the most recent call that lay before the end of
\* the file when the call was made.
Available == Max(0, Min(RecordSize, last.fsize - last.index * RecordSize))

\* Bytes the positional write of the most recent call transferred.
Transferred ==
  IF last.fault.err = "none" THEN RecordSize ELSE Min(last.fault.n, RecordSize)

\* C12: in ReaderAtReader.ReadRecord a read error other than end of file
\* gives the read-failure error whatever the byte count; otherwise a read
\* that obtained fewer than RecordSize bytes (the record lying partly or
\* wholly past the end of the file) gives the partial-read error and no
\* slice, and a read that obtained RecordSize bytes returns the record.
C12_PartialRead ==
  (/\ last.op = "ReaderAtReader.ReadRecord"
   /\ InRange(last.index)
   /\ last.arg.len >= RecordSize
   /\ LastAcc.file.open)
  => /\ last.fault.err # "none"
        => last.err = "ReadFailure" /\ last.ret = NoSlice
     /\ (last.fault.err = "none" /\ Available < RecordSize)
        => last.err = "PartialTransfer" /\ last.ret = NoSlice
     /\ (last.fault.err = "none" /\ Available = RecordSize)
        => /\ last.err = "nil"
           /\ SameBytes(last.ret.bytes, RecordOf(LastFile, last.index))

\* A record half past the end of a short file: half of it reached the
\* buffer and the partial-read error was returned.
C12_Witness ==
  /\ last.op = "ReaderAtReader.ReadRecord"
  /\ last.index = 1
  /\ last.fsize = RecordSize + RecordSize \div 2
  /\ last.fault = NoFault
  /\ last.err = "PartialTransfer"
  /\ "buf" \in last.mod

\* C13 as stated: every positional write that transfers fewer than
\* RecordSize bytes returns the partial-write (PartialTransfer) error.
C13_PartialAsClaimed ==
  (/\ last.op = "WriterAtWriter.WriteRecord"
   /\ InRange(last.index)
   /\ last.arg.len = RecordSize
   /\ LastAcc.file.open
   /\ Transferred < RecordSize)
  => last.err = "PartialTransfer"

\* C13: a positional write that transfers fewer than RecordSize bytes never
\* returns success: it returns an error other than the index-out-of-range
\* and size-mismatch errors, which is the write-failure error, WriteAt
\* reporting an error with every short count.
C13_PartialWrite ==
  (/\ last.op = "WriterAtWriter.WriteRecord"
   /\ InRange(last.index)
   /\ last.arg.len = RecordSize
   /\ LastAcc.file.open)
  => /\ Transferred < RecordSize
        => /\ last.err = "WriteFailure"
           /\ last.err \notin {"nil", "IndexOutOfRange", "SizeMismatch"}
     /\ last.err = "nil" => Transferred = RecordSize
     /\ last.fault.err # "none" => last.err = "WriteFailure"

\* Half of the record reached the file before the storage ran out of space.
C13_Witness ==
  /\ last.op = "WriterAtWriter.WriteRecord"
  /\ last.index = 0
  /\ last.fault.err = "ENOSPC"
  /\ Transferred = RecordSize \div 2
  /\ "file" \in last.mod
  /\ last.err = "WriteFailure"

\* The largest value of a 32-bit signed int.
MaxInt32 == 2147483647

\* index * RecordSize + RecordSize is computed without overflow in a 32-bit
\* signed int.
FitsInt32(index) == index <= (MaxInt32 - RecordSize) \div RecordSize

\* C14: every operation uses bytes [i * RecordSize, i * RecordSize +
\* RecordSize) for index i; distinct indices have distinct offsets and
\* disjoint ranges, consecutive indices ranges that adjoin, the ranges run
\* from 0 to RecordSize * RecordCount = 100,000,000, which a 32-bit signed
\* int holds; so a write to one record changes no other record and not the
\* file's length.
C14_RecordGeometry ==
  /\ (last.op \in RecordOps /\ InRange(last.index))
     => /\ last.err = "nil"
        /\ \A r \in last.access :
             r.lo = last.index * RecordSize /\ r.hi - r.lo = RecordSize
        /\ last.access # {}
  /\ \A i \in GeomIndices :
       /\ InRange(i)
       /\ Offset(i) = i * RecordSize
       /\ 0 <= Offset(i) /\ Offset(i) + RecordSize <= FullSize
       /\ i + 1 < RecordCount => Offset(i + 1) - Offset(i) = RecordSize
       /\ FitsInt32(i)
       /\ SameBytes(RecordOf(disk["f1"], i), Expected("f1", i))
       /\ \A j \in GeomIndices :
            i < j => Offset(i) + RecordSize <= Offset(j)
  /\ Offset(0) = 0
  /\ Offset(RecordCount - 1) + RecordSize = FullSize
  /\ FullSize = 100000000
  /\ FitsInt32(RecordCount - 1) /\ FullSize <= MaxInt32
  /\ disk["f1"].size = FullSize

\* The last record was written through the mapping while its neighbour
\* below holds what it held before and the second record what was written.
C14_Witness ==
  /\ last.op = "MmapWriter.WriteRecord"
  /\ last.index = RecordCount - 1
  /\ last.err = "nil"
  /\ DOMAIN written["f1"] = {1, RecordCount - 1}

\* C15: a successful ReaderAtReader.ReadRecord returns buf[0:RecordSize] of
\* the caller's buffer, filled with the record, and leaves the buffer's
\* bytes from RecordSize on as they were; no read, successful or failed,
\* changes the file's content or length or the accessor, and the same read
\* made again returns the same bytes.
C15_PositionalReadEffect ==
  last.op = "ReaderAtReader.ReadRecord"
  => LET again == ReaderAtReader_ReadRecord(LastAcc, LastFile, last.index,
                                            last.buf, last.fault)
     IN /\ "file" \notin last.mod /\ "data" \notin last.mod
        /\ LastFile.size = last.fsize
        /\ LastAcc.file.open /\ LastAcc.data = NoData
        /\ last.buf.len = last.arg.len
        /\ BLen(last.buf.arr) = BLen(last.arg.arr)
        /\ again.err = last.err
        /\ again.file = LastFile
        /\ last.err = "nil"
           => /\ last.ret.store = "buf"
              /\ last.ret.lo = 0 /\ last.ret.hi = RecordSize
              /\ BLen(last.ret.bytes) = RecordSize
              /\ SameBytes(last.ret.bytes, Slice(last.buf.arr, 0, RecordSize))
              /\ SameBytes(last.ret.bytes, RecordOf(LastFile, last.index))
              /\ \A k \in RecordSize..(BLen(last.arg.arr) - 1) :
                   ByteOf(last.buf.arr, k) = ByteOf(last.arg.arr, k)
              /\ SameBytes(again.ret.bytes, last.ret.bytes)

\* A written record read into a buffer one byte longer than a record.
C15_Witness ==
  /\ last.op = "ReaderAtReader.ReadRecord"
  /\ last.err = "nil"
  /\ last.arg = MkBuf(RecordSize + 1, RecordSize + 1)
  /\ "buf" \in last.mod
  /\ last.index \in DOMAIN written["f1"]

\* C17: on a file shorter than RecordSize * RecordCount, a write of a valid
\* index whose record ends past the end of the file fails with the bounds
\* error through MmapWriter, the file unchanged, and succeeds through
\* WriterAtWriter, which extends the file to (index + 1) * RecordSize bytes;
\* no operation changes the length of a file of RecordSize * RecordCount
\* bytes.
C17_WritersDiverge ==
  /\ (/\ last.op \in WriteOps
      /\ InRange(last.index)
      /\ ValidArgs
      /\ LastAcc.file.open
      /\ last.index * RecordSize + RecordSize > last.fsize)
     => /\ last.fsize < FullSize
        /\ last.op = "MmapWriter.WriteRecord"
           => /\ last.err = "BoundsExceeded"
              /\ last.mod = {}
              /\ LastFile.size = last.fsize
        /\ last.op = "WriterAtWriter.WriteRecord"
           => /\ last.err = "nil"
              /\ LastFile.size = (last.index + 1) * RecordSize
              /\ SameBytes(RecordOf(LastFile, last.index), BytesOf(last.arg))
  /\ last.fsize = FullSize => LastFile.size = FullSize
  /\ \A n \in FileNames : disk[n].base = FullSize => disk[n].size = FullSize

\* The positional writer wrote the last record of a file that was one byte
\* short, making it full-size.
C17_Witness ==
  /\ last.op = "WriterAtWriter.WriteRecord"
  /\ last.index = RecordCount - 1
  /\ last.fsize = FullSize - 1
  /\ last.err = "nil"
  /\ LastFile.size = FullSize

CheckedErrors == {"IndexOutOfRange", "BufferTooSmall", "SizeMismatch", "BoundsExceeded"}

\* C16: Close of a mapped accessor leaves its data slice and file field set
\* and pays no regard to a view handed out before; a ReadRecord or
\* WriteRecord of a valid index after Close passes every check and goes to
\* the unmapped region (the read returns a view of it with no error, the
\* store faults or lands in whatever has the addresses now, and so does a
\* load from an earlier view); a second Close calls the unmap and the file
\* close again and reports their errors.
C16_UseAfterTeardown ==
  /\ last.op \in MmapCloses
     => /\ ~LastAcc.nil /\ ~LastAcc.data.nil /\ ~LastAcc.file.nil
        /\ LastAcc.data.len = LastFile.base
        /\ last.trace = <<"munmap", "close">>
        /\ last.err2 = "ErrClosed"
           => /\ last.err # "nil"
              /\ last.err1 \in {"nil", "EINVAL", last.faults.munmap}
        /\ last.err1 = "EINVAL" => last.err = "EINVAL"
  /\ (/\ last.op \in MappedOps
      /\ InRange(last.index)
      /\ last.op \in WriteOps => last.arg.len = RecordSize
      /\ ~LastAcc.data.live
      /\ last.index * RecordSize + RecordSize <= LastAcc.data.len)
     => /\ last.err \notin CheckedErrors
        /\ last.access # {}
        /\ \A r \in last.access :
             r.lo = last.index * RecordSize /\ r.hi = r.lo + RecordSize
        /\ "file" \notin last.mod
        /\ last.op = "MmapReader.ReadRecord"
           => last.err = "nil" /\ last.ret.store = "unmapped"
        /\ last.op = "MmapWriter.WriteRecord"
           => last.err \in {"SIGSEGV", "nil"}
  /\ (last.op = "load" /\ ~LastAcc.data.live)
     => /\ last.err \in {"SIGSEGV", "nil"}
        /\ last.ret.store \in {"unmapped", "foreign"}

\* A ReadRecord of the first record on the closed and unmapped reader
\* passed every check, and the caller now keeps the view it returned.
C16_Witness ==
  /\ last.op = "MmapReader.ReadRecord"
  /\ last.index = 0
  /\ last.err = "nil"
  /\ last.ret.store = "unmapped"
  /\ ~LastAcc.data.live /\ ~LastAcc.file.open
  /\ ~pending.nil /\ pending.index = 0

====
